---- MODULE Spec2Model ----
(***************************************************************************)
(* DeepDream.transform of sinc_net_deepdream/deep_dream.py: the framing,   *)
(* batching, inference and aggregation loop over a sequence of waveforms.  *)
(*                                                                         *)
(* Tensors are modelled by what the code reads of them:                    *)
(*   - a waveform is its sequence of samples (0 = silence, 1 = signal);    *)
(*   - a row of signal_array is the slice it was filled with, tagged with  *)
(*     the offset it was sliced at (b = -1 for a row of torch.zeros);      *)
(*   - a row of vectors is an embedding: a sequence of vector_dim          *)
(*     coordinates, each a floating-point class, tagged with the offset of *)
(*     the frame it was computed from (frame = -1 for a torch.zeros row).  *)
(* Floating-point values are abstracted to the classes "zero", "tiny"      *)
(* (nonzero, with a square below the smallest single-precision number),    *)
(* "pos" (any other finite nonzero value), "inf" and "nan", with IEEE-754  *)
(* division and sum.                                                       *)
(***************************************************************************)
EXTENDS Integers, Sequences, FiniteSets

VARIABLES
    x,                      \* the argument of transform: sequence of (signal, sample_rate)
    window_length,          \* module global, deep_dream.py:50
    window_shift,           \* module global, deep_dream.py:51
    number_of_chunks,       \* self.number_of_chunks, deep_dream.py:84
    net,                    \* which network self._cnn_net / self._dnn_net hold
    pc,                     \* position in transform
    idx,                    \* number of waveforms the for loop has taken from x
    signal,                 \* local: samples of the current waveform
    sample_rate,            \* local: loop variable of the for statement
    beginning_of_sample,
    end_of_sample,
    number_of_frames,
    signal_array,
    vectors,
    frame_count,
    vectors_output_offset,
    predictions,
    nan_sum,
    nan_sum_bound,          \* whether the local name nan_sum has been assigned
    output,                 \* entries carry the waveform whose predictions they hold
    error,                  \* the exception transform raised, "" if none
    sliced,                 \* every [b, e) the while loop has sliced from the current waveform
    calls                   \* every input handed to self._dnn_net(self._cnn_net(.)), in order

config == <<x, window_length, window_shift, number_of_chunks, net>>
cursor == <<beginning_of_sample, end_of_sample, frame_count>>
result == <<predictions, nan_sum, nan_sum_bound, output>>
vars == <<x, window_length, window_shift, number_of_chunks, net, pc, idx, signal,
          sample_rate, beginning_of_sample, end_of_sample, number_of_frames,
          signal_array, vectors, frame_count, vectors_output_offset, predictions,
          nan_sum, nan_sum_bound, output, error, sliced, calls>>

---------------------------------------------------------------------------
(* Bounds of the model *)

\* longest waveform, in samples, of a single-recording run
MaxLen == 9
\* longest input sequence of a multi-recording run
MaxWaves == 2
\* longest waveform, in samples, of a multi-recording run
MaxBatchLen == 4
\* largest batch capacity (number_of_chunks)
MaxChunks == 3
\* width of an embedding (fc_layer_sizes[-1], read from the cfg file)
vector_dim == 2

\* (window_length, window_shift) pairs: overlapping, abutting and gapped frames
WindowConfigs == { <<2, 1>>, <<3, 1>>, <<2, 2>>, <<3, 2>>, <<1, 2>> }
SampleRates == { 8000, 16000 }
\* "energy": the network maps an all-zero frame to the zero vector and any other
\* frame to a nonzero finite vector; "bias": every frame to a nonzero finite vector;
\* "tiny": every frame to a vector of tiny nonzero coordinates; "nan", "overflow":
\* every frame to a vector of NaN, of infinite coordinates; "faulty": as "bias",
\* but any call may raise instead of returning (resource exhaustion).
Networks == { "energy", "bias", "tiny", "nan", "overflow", "faulty" }

Min(a, b) == IF a < b THEN a ELSE b

Silent(n) == [i \in 1..n |-> 0]
Tone(n) == [i \in 1..n |-> 1]
\* silence for the first half, signal after it
Onset(n) == [i \in 1..n |-> IF 2 * i <= n THEN 0 ELSE 1]

Signals(maxlen) ==
    UNION { { Silent(n), Tone(n), Onset(n) } : n \in 0..maxlen }

Waveforms(maxlen) ==
    { [signal |-> s, sample_rate |-> r] : s \in Signals(maxlen), r \in SampleRates }

SeqsUpTo(S, n) == UNION { [1..k -> S] : k \in 0..n }

---------------------------------------------------------------------------
(* Tensor operations used by transform *)

\* int(a / b) for b > 0: Python's int() truncates toward zero
PyInt(a, b) == IF a >= 0 THEN a \div b ELSE -((-a) \div b)

\* (mutant of NumberOfFrames: the "+ 1" left out)
NumberOfFramesNoPlusOne(L, F, S) == PyInt(L - F, S)
\* line 160: int((signal.shape[0] - window_length) / window_shift + 1)
NumberOfFrames(L, F, S) == PyInt(L - F + S, S)

\* signal[b:e]: a Python slice stops at the end of the sequence
Slice(s, b, e) == SubSeq(s, b + 1, Min(e, Len(s)))

\* one row of torch.zeros([number_of_chunks, window_length])
ZeroRow(F) == [b |-> -1, data |-> Silent(F)]
ZeroSignalArray(C, F) == [i \in 1..C |-> ZeroRow(F)]

\* one row of torch.zeros(number_of_frames, vector_dim)
ZeroVector == [frame |-> -1, val |-> [j \in 1..vector_dim |-> "zero"]]
ZeroVectors(n) == [i \in 1..n |-> ZeroVector]

\* line 173: the condition of the while loop
WhileCondition(e, L) == e < L

\* lines 180 and 193: the rows handed to the network
FullInput(arr) == arr
\* (mutant of PartialInput: the whole buffer, zero rows included)
PartialInputPadded(arr, n) == arr
PartialInput(arr, n) == SubSeq(arr, 1, n)

\* self._dnn_net(self._cnn_net(network_input)) for one row
Embed(kind, row) ==
    [frame |-> row.b,
     val |-> [j \in 1..vector_dim |->
                 IF kind = "energy" /\ \A i \in 1..Len(row.data) : row.data[i] = 0
                 THEN "zero"
                 ELSE IF kind = "tiny" THEN "tiny"
                 ELSE IF kind = "nan" THEN "nan"
                 ELSE IF kind = "overflow" THEN "inf"
                 ELSE "pos"]]

\* self._dnn_net(self._cnn_net(network_input)): one embedding per row, in order
Forward(kind, rows) == [i \in 1..Len(rows) |-> Embed(kind, rows[i])]

\* whether one call of the network raises: either, for a faulty network
CallOutcomes(kind) == IF kind = "faulty" THEN BOOLEAN ELSE { FALSE }

\* vectors[lo:hi] = src : the rows the slice names, and whether src fits them
\* (same number of rows, or one row, which torch broadcasts)
TargetRows(vecs, lo, hi) == { i \in 1..Len(vecs) : lo < i /\ i <= hi }
CanAssign(vecs, lo, hi, src) ==
    \/ Len(src) = Cardinality(TargetRows(vecs, lo, hi))
    \/ Len(src) = 1
AssignRows(vecs, lo, hi, src) ==
    [i \in 1..Len(vecs) |->
        IF i \in TargetRows(vecs, lo, hi)
        THEN IF Len(src) = 1 THEN src[1] ELSE src[i - lo]
        ELSE vecs[i]]

\* the 2-norm of one row, in exact arithmetic
Norm(v) ==
    IF \E j \in 1..Len(v) : v[j] = "nan" THEN "nan"
    ELSE IF \E j \in 1..Len(v) : v[j] = "inf" THEN "inf"
    ELSE IF \A j \in 1..Len(v) : v[j] = "zero" THEN "zero"
    ELSE IF \A j \in 1..Len(v) : v[j] \in { "zero", "tiny" } THEN "tiny"
    ELSE "pos"

\* vectors.norm(p=2, dim=1) of one row, as computed: sqrt(sum(v[j]^2)). When the
\* squares are accumulated in single precision (the CUDA kernel, use_gpu) those
\* of tiny coordinates underflow to 0 and so does the norm; accumulated in
\* double precision they do not.
ComputedNorm(v, underflow) ==
    IF Norm(v) = "tiny" /\ underflow THEN "zero" ELSE Norm(v)

\* IEEE-754 division a / n
Div(a, n) ==
    IF a = "nan" \/ n = "nan" THEN "nan"
    ELSE IF a = "zero" /\ n = "zero" THEN "nan"
    ELSE IF a = "inf" /\ n = "inf" THEN "nan"
    ELSE IF n = "zero" \/ a = "inf" THEN "inf"
    ELSE IF a = "zero" \/ n = "inf" THEN "zero"
    ELSE IF a = "tiny" /\ n = "pos" THEN "tiny"
    ELSE IF a = "pos" /\ n = "tiny" THEN "inf"
    ELSE "pos"

\* vectors / vectors.norm(p=2, dim=1).view(-1, 1)
Normalized(vecs, underflow) ==
    [i \in 1..Len(vecs) |->
        [j \in 1..vector_dim |->
            Div(vecs[i].val[j], ComputedNorm(vecs[i].val, underflow))]]

\* torch.mean(., dim=0) of one coordinate: the sum over the rows divided by
\* their number (0 / 0 over no rows)
MeanCoord(col) ==
    IF col = {} THEN "nan"
    ELSE IF "nan" \in col THEN "nan"
    ELSE IF "inf" \in col THEN "inf"
    ELSE IF col = { "zero" } THEN "zero"
    ELSE IF col \subseteq { "zero", "tiny" } THEN "tiny"
    ELSE "pos"

\* line 198
Mean(vecs, underflow) ==
    [j \in 1..vector_dim |->
        MeanCoord({ Normalized(vecs, underflow)[i][j] : i \in 1..Len(vecs) })]

\* line 204: torch.sum(torch.isnan(predictions))
NanSum(p) == Cardinality({ j \in 1..Len(p) : p[j] = "nan" })

\* line 206: the check that decides between None and the vector
HasNan(n) == n > 0

None == [valid |-> FALSE, vec |-> << >>]
Valid(p) == [valid |-> TRUE, vec |-> p]

---------------------------------------------------------------------------
(* transform *)

\* the arguments of DeepDream(...) and of transform(...), nothing run yet
InitWith(inputs, chunks) ==
    /\ x \in inputs
    /\ \E w \in WindowConfigs : window_length = w[1] /\ window_shift = w[2]
    /\ number_of_chunks \in chunks
    /\ net \in Networks
    /\ pc = "init"
    /\ idx = 0
    /\ signal = << >>
    /\ sample_rate = 0
    /\ beginning_of_sample = 0
    /\ end_of_sample = 0
    /\ number_of_frames = 0
    /\ signal_array = << >>
    /\ vectors = << >>
    /\ frame_count = 0
    /\ vectors_output_offset = 0
    /\ predictions = << >>
    /\ nan_sum = 0
    /\ nan_sum_bound = FALSE
    /\ output = << >>
    /\ error = ""
    /\ sliced = << >>
    /\ calls = << >>

\* transform([file]) as main() calls it, or transform([])
Init == InitWith(SeqsUpTo(Waveforms(MaxLen), 1), 1..MaxChunks)

\* transform on several recordings
InitBatch == InitWith(SeqsUpTo(Waveforms(MaxBatchLen), MaxWaves), 1..MaxChunks)

\* any integer passed as number_of_chunks, zero and negative included
InitAnyChunks == InitWith(SeqsUpTo(Waveforms(MaxLen), 1), -1..MaxChunks)

Raise(e) ==
    /\ pc' = "raised"
    /\ error' = e

\* (mutant of Propagate: the exception is caught and the waveform aggregated)
Swallow ==
    /\ pc' = "mean"
    /\ UNCHANGED error
\* lines 182-183 and 194-195: the call of the network is in no try statement, so
\* an exception it raises leaves transform
Propagate == Raise("RuntimeError: network")

\* lines 71-90, __init__: the arguments are stored and the model loaded; no
\* argument is checked
Construct ==
    /\ pc = "init"
    /\ pc' = "for"
    /\ UNCHANGED <<config, idx, signal, sample_rate, cursor, number_of_frames,
                   signal_array, vectors, vectors_output_offset, result, error,
                   sliced, calls>>

\* lines 151-171: the for loop takes the next waveform and allocates its buffers
BeginWaveform ==
    /\ pc = "for"
    /\ idx < Len(x)
    /\ idx' = idx + 1
    /\ signal' = x[idx + 1].signal
    /\ sample_rate' = x[idx + 1].sample_rate
    /\ beginning_of_sample' = 0
    /\ end_of_sample' = window_length
    /\ number_of_frames' = NumberOfFrames(Len(signal'), window_length, window_shift)
    /\ signal_array' = ZeroSignalArray(number_of_chunks, window_length)
    /\ sliced' = << >>
    /\ IF number_of_chunks < 0 \/ number_of_frames' < 0
       THEN /\ Raise("RuntimeError: negative dimension")
            /\ UNCHANGED <<vectors, frame_count, vectors_output_offset>>
       ELSE /\ vectors' = ZeroVectors(number_of_frames')
            /\ frame_count' = 0
            /\ vectors_output_offset' = 0
            /\ pc' = "while"
            /\ UNCHANGED error
    /\ UNCHANGED <<config, result, calls>>

\* lines 173-177: one frame is copied into signal_array
SliceFrame ==
    /\ pc = "while"
    /\ WhileCondition(end_of_sample, Len(signal))
    /\ IF frame_count + 1 > Len(signal_array)
       THEN /\ Raise("IndexError: signal_array")
            /\ UNCHANGED <<signal_array, sliced, cursor>>
       ELSE /\ signal_array' = [signal_array EXCEPT ![frame_count + 1] =
                    [b |-> beginning_of_sample,
                     data |-> Slice(signal, beginning_of_sample, end_of_sample)]]
            /\ sliced' = Append(sliced, [b |-> beginning_of_sample, e |-> end_of_sample])
            /\ beginning_of_sample' = beginning_of_sample + window_shift
            /\ end_of_sample' = beginning_of_sample' + window_length
            /\ frame_count' = frame_count + 1
            /\ pc' = IF frame_count' = number_of_chunks THEN "full" ELSE "while"
            /\ UNCHANGED error
    /\ UNCHANGED <<config, idx, signal, sample_rate, number_of_frames, vectors,
                   vectors_output_offset, result, calls>>

\* lines 179-190: a full batch goes through the network
FullBatch ==
    /\ pc = "full"
    /\ \E fails \in CallOutcomes(net) :
       /\ calls' = Append(calls, [w |-> idx, input |-> FullInput(signal_array),
                                  raised |-> fails])
       /\ LET out == Forward(net, FullInput(signal_array))
              lo == vectors_output_offset
              hi == vectors_output_offset + Len(signal_array)
          IN
           IF fails
           THEN /\ Propagate
                /\ UNCHANGED <<vectors, vectors_output_offset, frame_count, signal_array>>
           ELSE IF CanAssign(vectors, lo, hi, out)
           THEN /\ vectors' = AssignRows(vectors, lo, hi, out)
                /\ vectors_output_offset' = hi
                /\ frame_count' = 0
                /\ signal_array' = ZeroSignalArray(number_of_chunks, window_length)
                /\ pc' = "while"
                /\ UNCHANGED error
           ELSE /\ Raise("RuntimeError: shape mismatch")
                /\ UNCHANGED <<vectors, vectors_output_offset, frame_count, signal_array>>
    /\ UNCHANGED <<config, idx, signal, sample_rate, beginning_of_sample, end_of_sample,
                   number_of_frames, result, sliced>>

\* lines 192-195: the loop is over and the frames left go through the network
PartialBatch ==
    /\ pc = "while"
    /\ ~WhileCondition(end_of_sample, Len(signal))
    /\ frame_count > 0
    /\ \E fails \in CallOutcomes(net) :
       /\ calls' = Append(calls, [w |-> idx,
                                  input |-> PartialInput(signal_array, frame_count),
                                  raised |-> fails])
       /\ LET out == Forward(net, PartialInput(signal_array, frame_count))
              lo == vectors_output_offset
              hi == Len(vectors)
          IN
           IF fails
           THEN /\ Propagate
                /\ UNCHANGED vectors
           ELSE IF CanAssign(vectors, lo, hi, out)
           THEN /\ vectors' = AssignRows(vectors, lo, hi, out)
                /\ pc' = "mean"
                /\ UNCHANGED error
           ELSE /\ Raise("RuntimeError: shape mismatch")
                /\ UNCHANGED vectors
    /\ UNCHANGED <<config, idx, signal, sample_rate, cursor, number_of_frames,
                   signal_array, vectors_output_offset, result, sliced>>

\* line 192, condition false: no frame is left
NoPartialBatch ==
    /\ pc = "while"
    /\ ~WhileCondition(end_of_sample, Len(signal))
    /\ frame_count = 0
    /\ pc' = "mean"
    /\ UNCHANGED <<config, idx, signal, sample_rate, cursor, number_of_frames,
                   signal_array, vectors, vectors_output_offset, result, error, sliced, calls>>

\* lines 198-204: the normalized mean and its NaN count; the for loop goes on
Aggregate ==
    /\ pc = "mean"
    /\ \E underflow \in BOOLEAN : predictions' = Mean(vectors, underflow)
    /\ nan_sum' = NanSum(predictions')
    /\ nan_sum_bound' = TRUE
    /\ pc' = "for"
    /\ UNCHANGED <<config, idx, signal, sample_rate, cursor, number_of_frames,
                   signal_array, vectors, vectors_output_offset, output, error, sliced, calls>>

\* lines 206-211, after the for loop: one result is appended and output returned
Emit ==
    /\ pc = "for"
    /\ idx = Len(x)
    /\ IF ~nan_sum_bound
       THEN /\ Raise("UnboundLocalError: nan_sum")
            /\ UNCHANGED output
       ELSE /\ output' = Append(output,
                    [embedding |-> IF HasNan(nan_sum) THEN None ELSE Valid(predictions),
                     sample_rate |-> sample_rate,
                     waveform |-> idx])
            /\ pc' = "done"
            /\ UNCHANGED error
    /\ UNCHANGED <<config, idx, signal, sample_rate, cursor, number_of_frames,
                   signal_array, vectors, vectors_output_offset, predictions,
                   nan_sum, nan_sum_bound, sliced, calls>>

Next ==
    \/ Construct
    \/ BeginWaveform
    \/ SliceFrame
    \/ FullBatch
    \/ PartialBatch
    \/ NoPartialBatch
    \/ Aggregate
    \/ Emit

Spec == Init /\ [][Next]_vars
SpecBatch == InitBatch /\ [][Next]_vars
SpecAnyChunks == InitAnyChunks /\ [][Next]_vars

---------------------------------------------------------------------------
(* Notions the claims are stated in *)

\* floor((L - F) / S) + 1, the frame count of the specification, for L >= F
ExpectedFrames(L, F, S) == (L - F) \div S + 1
CeilDiv(a, b) == (a + b - 1) \div b

\* the while condition has just been evaluated to false for the current waveform
LoopExited == pc = "while" /\ ~WhileCondition(end_of_sample, Len(signal))

\* the inputs the network was called with for waveform w, in call order
CallsOf(w) == SelectSeq(calls, LAMBDA c : c.w = w)
BatchSizes(w) == [m \in 1..Len(CallsOf(w)) |-> Len(CallsOf(w)[m].input)]

RECURSIVE SumSeq(_)
SumSeq(q) == IF q = << >> THEN 0 ELSE q[1] + SumSeq(Tail(q))

\* the network returned a zero-norm embedding for some frame of waveform w
ZeroNormFrame(w) ==
    \E m \in 1..Len(CallsOf(w)) : \E i \in 1..Len(CallsOf(w)[m].input) :
        Norm(Embed(net, CallsOf(w)[m].input[i]).val) = "zero"

\* waveform w is too short for one frame, or one of its frames has a zero-norm
\* embedding
InvalidWaveform(w) == Len(x[w].signal) < window_length \/ ZeroNormFrame(w)

\* transform has returned, or raised
Finished == pc \in { "done", "raised" }

---------------------------------------------------------------------------
(* Claims *)

\* C1: when transform returns for an input of k >= 1 waveforms, the output has
\* exactly k pairs, the j-th pair holds the result of the j-th waveform and the
\* j-th waveform's own sample rate.
C1_OnePairPerWaveform ==
    pc = "done" =>
        /\ Len(output) = Len(x)
        /\ \A j \in 1..Len(output) :
              /\ output[j].waveform = j
              /\ output[j].sample_rate = x[j].sample_rate

\* C2: for a waveform of length L >= window_length, when the framing loop is
\* over it has sliced exactly floor((L-F)/S)+1 frames, as many as the rows
\* preallocated in vectors, and the i-th frame is samples [i*S, i*S+F), inside
\* the waveform.
C2_FramesSliced ==
    (LoopExited /\ Len(signal) >= window_length) =>
        /\ Len(sliced) = ExpectedFrames(Len(signal), window_length, window_shift)
        /\ Len(sliced) = number_of_frames
        /\ \A i \in 1..Len(sliced) :
              /\ sliced[i].b = (i - 1) * window_shift
              /\ sliced[i].e = (i - 1) * window_shift + window_length
              /\ sliced[i].e <= Len(signal)

\* C3: for a waveform with N = floor((L-F)/S)+1 >= 1 frames, when aggregation is
\* reached the network has been called exactly ceil(N/C) times for it, with
\* batch sizes that sum to N, the first floor(N/C) of them equal to C and a
\* last one of N mod C frames when that is not zero.
C3_BatchSizes ==
    (pc = "mean" /\ Len(signal) >= window_length) =>
        LET N == ExpectedFrames(Len(signal), window_length, window_shift)
            C == number_of_chunks
            sizes == BatchSizes(idx)
        IN  /\ Len(sizes) = CeilDiv(N, C)
            /\ SumSeq(sizes) = N
            /\ \A m \in 1..Len(sizes) :
                  sizes[m] = IF m <= N \div C THEN C ELSE N % C

\* C4: a waveform of exactly k*C frames' worth of samples, L = F + (k*C-1)*S with
\* k >= 1, is processed without error as exactly k batches of C frames each.
C4_ExactMultiple ==
    \A k \in 1..MaxLen :
        (/\ idx >= 1
         /\ Len(signal) = window_length + (k * number_of_chunks - 1) * window_shift
         /\ pc \in { "mean", "raised" }) =>
            /\ pc = "mean"
            /\ BatchSizes(idx) = [m \in 1..k |-> number_of_chunks]

\* C5: when transform returns for an input of several waveforms, the output has
\* one entry per waveform, in order; the entry of an invalid waveform (shorter
\* than window_length, or with a zero-norm frame embedding) is None and the
\* entry of every other waveform is a vector.
C5_InvalidAmongValid ==
    (pc = "done" /\ Len(x) >= 2) =>
        /\ Len(output) = Len(x)
        /\ \A j \in 1..Len(output) :
              /\ output[j].waveform = j
              /\ output[j].embedding.valid = ~InvalidWaveform(j)

\* C6: when transform returns, every waveform for which the network returned a
\* zero-norm embedding for at least one frame has an entry in the output, and
\* that entry is None with the waveform's sample rate.
C6_ZeroNormFlagged ==
    pc = "done" =>
        \A w \in 1..Len(x) :
            ZeroNormFrame(w) =>
                \E j \in 1..Len(output) :
                    /\ output[j].waveform = w
                    /\ output[j].embedding = None
                    /\ output[j].sample_rate = x[w].sample_rate

\* C7: for an all-zero waveform of length L >= window_length and a network that
\* maps an all-zero frame to a zero-norm embedding, transform does not raise, and
\* what it returns for the waveform is None.
C7_SilenceIsInvalid ==
    (/\ idx = 1
     /\ Len(signal) >= window_length
     /\ signal = Silent(Len(signal))
     /\ net = "energy") =>
        /\ pc # "raised"
        /\ pc = "done" => (Len(output) = 1 /\ output[1].embedding = None)

\* C8: a waveform shorter than window_length never reaches the network and never
\* reaches the computation of the normalized mean.
C8_ShortRejected ==
    (idx >= 1 /\ Len(signal) < window_length) =>
        /\ CallsOf(idx) = << >>
        /\ pc # "mean"

\* C9: for a waveform with 0 <= L < window_length the frame count computed at
\* line 160 is 0.
C9_ShortHasNoFrames ==
    (idx >= 1 /\ Len(signal) < window_length) => number_of_frames = 0

\* C10: every input handed to the network has between 1 and number_of_chunks
\* rows, and its rows are the frames of the current waveform sliced since the
\* previous call, in order: row i of the m-th call of a waveform is samples
\* [n*S, n*S+F) of it, n being the number of rows of the earlier calls plus i-1.
C10_BatchRowsAreFrames ==
    \A q \in 1..Len(calls) :
        LET c == calls[q]
            earlier == SumSeq([m \in 1..Len(SelectSeq(SubSeq(calls, 1, q - 1),
                                        LAMBDA d : d.w = c.w)) |->
                                 Len(SelectSeq(SubSeq(calls, 1, q - 1),
                                        LAMBDA d : d.w = c.w)[m].input)])
        IN  /\ 1 <= Len(c.input)
            /\ Len(c.input) <= number_of_chunks
            /\ \A i \in 1..Len(c.input) :
                  LET n == earlier + i - 1
                  IN  /\ c.input[i].b = n * window_shift
                      /\ n * window_shift + window_length <= Len(x[c.w].signal)
                      /\ c.input[i].data =
                            Slice(x[c.w].signal, n * window_shift,
                                  n * window_shift + window_length)

\* C11: an entry of the output holds a vector only if every coordinate of that
\* vector, the aggregated mean, is finite (neither NaN nor infinite).
C11_ValidIsFinite ==
    \A j \in 1..Len(output) :
        output[j].embedding.valid =>
            \A c \in 1..Len(output[j].embedding.vec) :
                output[j].embedding.vec[c] \notin { "nan", "inf" }

\* C12: transform never runs with a frame length, a frame shift or a batch
\* capacity that is not positive: constructing such an engine fails.
C12_ConfigurationChecked ==
    pc # "init" =>
        /\ window_length > 0
        /\ window_shift > 0
        /\ number_of_chunks > 0

\* C13: a call of the network that raises ends transform with that exception;
\* the failed call is the last call made, no batch is handed to the network
\* twice, and no vector is put in the output for the waveform.
C13_FailureSurfaced ==
    /\ \A q \in 1..Len(calls) :
          calls[q].raised =>
              /\ q = Len(calls)
              /\ pc = "raised"
              /\ error = "RuntimeError: network"
              /\ \A j \in 1..Len(output) : output[j].waveform # calls[q].w
    /\ \A q1, q2 \in 1..Len(calls) :
          (q1 < q2 /\ calls[q1].w = calls[q2].w) =>
              calls[q1].input[1].b < calls[q2].input[1].b

\* C13 witness: the network raised on the trailing batch, after a full batch
\* went through
C13_Witness ==
    /\ Len(calls) >= 2
    /\ calls[Len(calls)].raised
    /\ Len(calls[Len(calls)].input) < number_of_chunks

\* C14: within a waveform of N = floor((L-F)/S)+1 >= 1 frames the m-th call of
\* the network carries frames (m-1)*C .. min(m*C, N)-1 in ascending order,
\* aggregation starts only after all ceil(N/C) calls, and an entry is put in the
\* output only after aggregation, at most one per waveform.
C14_Phases ==
    LET N == ExpectedFrames(Len(signal), window_length, window_shift)
        C == number_of_chunks
    IN  /\ (idx >= 1 /\ Len(signal) >= window_length) =>
              \A m \in 1..Len(CallsOf(idx)) :
                  [i \in 1..Len(CallsOf(idx)[m].input) |-> CallsOf(idx)[m].input[i].b]
                      = [i \in 1..(Min(m * C, N) - (m - 1) * C) |->
                            ((m - 1) * C + i - 1) * window_shift]
        /\ (pc = "mean" /\ Len(signal) >= window_length) =>
              Len(CallsOf(idx)) = CeilDiv(N, C)
        /\ \A j \in 1..Len(output) :
              /\ nan_sum_bound
              /\ output[j].waveform <= idx
              /\ \A k \in 1..Len(output) :
                    output[k].waveform = output[j].waveform => k = j

\* C15: for a waveform with L >= window_length, when the mean is about to be
\* computed vectors has number_of_frames rows and row j holds the embedding of
\* frame j, samples [j*S, j*S+F), for every j.
C15_RowsHoldFrames ==
    (pc = "mean" /\ Len(signal) >= window_length) =>
        /\ Len(vectors) = number_of_frames
        /\ \A j \in 0..(number_of_frames - 1) :
              vectors[j + 1] =
                  Embed(net, [b |-> j * window_shift,
                              data |-> Slice(signal, j * window_shift,
                                             j * window_shift + window_length)])

\* C16: for an empty input sequence transform returns, without raising, an
\* empty output sequence.
C16_EmptyInput ==
    (Len(x) = 0 /\ Finished) => (pc = "done" /\ output = << >>)

\* C17: whenever the while condition is evaluated (number_of_chunks > 0),
\* 0 <= frame_count < number_of_chunks, vectors_output_offset is a multiple of
\* number_of_chunks and the number of frames already handed to the network,
\* beginning_of_sample = (vectors_output_offset + frame_count) * window_shift,
\* end_of_sample = beginning_of_sample + window_length, and
\* vectors_output_offset + frame_count <= number_of_frames, the number of rows of
\* vectors; signal_array has number_of_chunks rows.
C17_LoopInvariant ==
    pc = "while" =>
        /\ 0 <= frame_count
        /\ frame_count < number_of_chunks
        /\ vectors_output_offset % number_of_chunks = 0
        /\ vectors_output_offset = SumSeq(BatchSizes(idx))
        /\ beginning_of_sample = (vectors_output_offset + frame_count) * window_shift
        /\ end_of_sample = beginning_of_sample + window_length
        /\ vectors_output_offset + frame_count <= number_of_frames
        /\ Len(vectors) = number_of_frames
        /\ Len(signal_array) = number_of_chunks
        /\ Len(sliced) = vectors_output_offset + frame_count

\* C17 witness: the condition is evaluated with a batch inferred and a frame
\* waiting in signal_array
C17_Witness ==
    /\ pc = "while"
    /\ vectors_output_offset > 0
    /\ frame_count > 0
    /\ WhileCondition(end_of_sample, Len(signal))

\* C18: for positive window_length, window_shift and number_of_chunks the loop
\* slices at offsets that grow by window_shift, runs at most
\* ceil(max(L-F, 0)/S) times, and what follows it does not raise before the
\* waveform is aggregated.
C18_LoopTerminates ==
    idx >= 1 =>
        /\ \A i \in 1..Len(sliced) : sliced[i].b = (i - 1) * window_shift
        /\ Len(sliced) <=
              CeilDiv(IF Len(signal) > window_length
                      THEN Len(signal) - window_length ELSE 0, window_shift)
        /\ error # "RuntimeError: shape mismatch"

\* C10 witness: a waveform got a full batch and then a partial one
C10_Witness ==
    /\ Len(CallsOf(idx)) >= 2
    /\ Len(CallsOf(idx)[1].input) = number_of_chunks
    /\ Len(CallsOf(idx)[Len(CallsOf(idx))].input) < number_of_chunks
    /\ number_of_chunks >= 3

====
